---- MODULE Spec2Model ----
(***************************************************************************)
(* Model of the blogicum blog application (blog/views.py, blog/forms.py):  *)
(* the stored posts and comments, the clock, and one action per request    *)
(* handler.  Every action records the response it gives in `resp`.         *)
(***************************************************************************)
EXTENDS Integers, Sequences, FiniteSets, TLC

\* ------------------------------------------------------------------ bounds
MaxPosts == 2
MaxComments == 1
MaxTime == 2
MaxListed == 12

\* ------------------------------------------------------- program constants
\* paginate_by = 10 / per_page=10
PerPage == 10

\* ------------------------------------------------------------ environment
\* Registered users, named here by the username they registered with (a user
\* row keeps its identity when its username changes); "anon" is the
\* AnonymousUser of an unauthenticated request.
Users == {"alice", "bob"}
Staff == {"bob"}
Anon == "anon"
Viewers == Users \cup {Anon}
\* Usernames a profile URL or a profile form can name: those the users
\* registered with and one more.
Usernames == Users \cup {"ghost"}

\* Categories (slug -> is_published) and one slug no category has.
Categories == {"travel", "drafts"}
PublishedCategories == {"travel"}
Slugs == Categories \cup {"nocat"}

Methods == {"GET", "POST"}
Texts == {"t1", "t2"}

\* A datetime: the instant t it denotes (a naive one read in the default
\* timezone) and its tzinfo; "naive" stands for tzinfo = None.
DefaultTz == "default"
AwareTzs == {DefaultTz, "utc"}
AllTzs == AwareTzs \cup {"naive"}
is_aware(d) == d.tz # "naive"
make_aware(d, tz) == [d EXCEPT !.tz = tz]

\* The empty (falsy) value of an optional datetime field.
NoDate == [t |-> 0, tz |-> "none"]

\* A clean_pub_date that returns what was submitted.
clean_pub_date_unchanged(pub_date) == pub_date

\* PostForm.clean_pub_date; NoDate is the empty (falsy) value.
clean_pub_date(pub_date) ==
    IF pub_date # NoDate
    THEN IF ~ is_aware(pub_date)
         THEN make_aware(pub_date, DefaultTz)
         ELSE pub_date
    ELSE pub_date

\* ------------------------------------------------------------- page query
\* The `page` query parameter: absent, present but empty, a non-numeric
\* text, "last", or an integer literal.
PageParam(kind, n) == [kind |-> kind, n |-> n]
NoPage == PageParam("absent", 0)
PageParams ==
    {NoPage, PageParam("empty", 0), PageParam("text", 0), PageParam("last", 0)}
        \cup {PageParam("int", n) : n \in -1 .. 3}

Min(a, b) == IF a < b THEN a ELSE b

\* Paginator.num_pages (orphans = 0, allow_empty_first_page = True).
NumPages(count) ==
    IF count = 0 THEN 1 ELSE (count + PerPage - 1) \div PerPage

\* Paginator.page(number).object_list for a valid number.
PageSlice(s, number) ==
    SubSeq(s, (number - 1) * PerPage + 1, Min(number * PerPage, Len(s)))

\* Paginator.get_page, as called by paginate_posts: a value that is not an
\* integer gives page 1, an integer outside 1..num_pages the last page.
GetPage(pp, count) ==
    IF pp.kind # "int" THEN 1
    ELSE IF pp.n < 1 \/ pp.n > NumPages(count) THEN NumPages(count)
    ELSE pp.n

\* MultipleObjectMixin.paginate_queryset, used by the ListViews that set
\* paginate_by: a missing or empty value is page 1 (`... or 1`); 0 stands
\* for Http404.
ListViewPage(pp, count) ==
    IF pp.kind \in {"absent", "empty"} THEN 1
    ELSE IF pp.kind = "last" THEN NumPages(count)
    ELSE IF pp.kind = "text" THEN 0
    ELSE IF pp.n < 1 \/ pp.n > NumPages(count) THEN 0
    ELSE pp.n

\* ------------------------------------------------------------------ state
VARIABLES posts, comments, nextPost, nextComment, usernames, now, resp

vars == <<posts, comments, nextPost, nextComment, usernames, now, resp>>
db == <<posts, comments, nextPost, nextComment, usernames>>

\* get_object_or_404(get_user_model(), username=...): the users with that
\* username (usernames are unique: none or one).
UsersNamed(username) == {u \in Users : usernames[u] = username}

Put(f, k, v) == [x \in DOMAIN f \cup {k} |-> IF x = k THEN v ELSE f[x]]
Remove(f, ks) == [x \in DOMAIN f \ ks |-> f[x]]

Post(author, pub_date, is_published, category) ==
    [author |-> author, pub_date |-> pub_date,
     is_published |-> is_published, category |-> category]

Comment(author, post, text) ==
    [author |-> author, post |-> post, text |-> text]

\* The response of a request: which view answered which request, the status,
\* the posts whose content is in the rendered page (shows), the post the
\* request operated on successfully (acted), and for a listing the resolved
\* page number, the page's posts in order and the whole ordered queryset.
Response(view, method, user, post, comment, target, page, status, shows, acted, number, items, listing) ==
    [view |-> view, method |-> method, user |-> user, post |-> post,
     comment |-> comment, target |-> target, page |-> page,
     status |-> status, shows |-> shows, acted |-> acted,
     number |-> number, items |-> items, listing |-> listing]

Simple(view, method, user, post, comment, status, shows, acted) ==
    Response(view, method, user, post, comment, "", NoPage, status,
             shows, acted, 0, <<>>, <<>>)

Idle == Simple("none", "GET", Anon, 0, 0, "idle", {}, {})

\* ------------------------------------------------------------- querysets
Range(s) == {s[i] : i \in 1 .. Len(s)}

\* PostsListsMixin.get_queryset: the filter of the index listing.
IndexQueryset ==
    {p \in DOMAIN posts :
        /\ posts[p].pub_date.t <= now
        /\ posts[p].is_published
        /\ posts[p].category \in PublishedCategories}

\* CategoryListView.get_queryset, for a published category.
CategoryQueryset(slug) ==
    {p \in IndexQueryset : posts[p].category = slug}

\* A profile filter that forgets the category's flag.
ProfileQuerysetNoCategory(viewer, owner) ==
    IF viewer = owner
    THEN {p \in DOMAIN posts : posts[p].author = owner}
    ELSE {p \in DOMAIN posts :
            /\ posts[p].author = owner
            /\ posts[p].is_published
            /\ posts[p].pub_date.t <= now}

\* UserDetailView.get_context_data: the posts of the profile.
ProfileQueryset(viewer, owner) ==
    IF viewer = owner
    THEN {p \in DOMAIN posts : posts[p].author = owner}
    ELSE {p \in DOMAIN posts :
            /\ posts[p].author = owner
            /\ posts[p].is_published
            /\ posts[p].pub_date.t <= now
            /\ posts[p].category \in PublishedCategories}

\* An ordering by ascending pub_date.
RECURSIVE OrderByPubDateAsc(_)
OrderByPubDateAsc(S) ==
    IF S = {} THEN {<<>>}
    ELSE LET top == {p \in S :
                        \A q \in S : posts[p].pub_date.t <= posts[q].pub_date.t}
         IN UNION {{<<p>> \o s : s \in OrderByPubDateAsc(S \ {p})} : p \in top}

\* order_by('-pub_date'): every order of the rows the database may return,
\* rows with equal pub_date in any order.
RECURSIVE OrderByPubDateDesc(_)
OrderByPubDateDesc(S) ==
    IF S = {} THEN {<<>>}
    ELSE LET top == {p \in S :
                        \A q \in S : posts[q].pub_date.t <= posts[p].pub_date.t}
         IN UNION {{<<p>> \o s : s \in OrderByPubDateDesc(S \ {p})} : p \in top}

\* ----------------------------------------------------------- read views
\* The index and category listings never read request.user: their response
\* is the same for every viewer, recorded as given to Anyone.
Anyone == "anyone"

\* PostsListView and CategoryListView (ListView, paginate_by = 10).
ListViewResponse(view, user, target, pp, s) ==
    LET number == ListViewPage(pp, Len(s)) IN
    IF number = 0
    THEN Response(view, "GET", user, 0, 0, target, pp, "404",
                  {}, {}, 0, <<>>, <<>>)
    ELSE Response(view, "GET", user, 0, 0, target, pp, "200",
                  Range(PageSlice(s, number)), {}, number,
                  PageSlice(s, number), s)

PostsListView(pp) ==
    /\ \E s \in OrderByPubDateDesc(IndexQueryset) :
          resp' = ListViewResponse("index", Anyone, "", pp, s)
    /\ UNCHANGED <<db, now>>

\* CategoryListView: 404 unless the slug names a published category.
CategoryListView(slug, pp) ==
    /\ IF slug \in PublishedCategories
       THEN \E s \in OrderByPubDateDesc(CategoryQueryset(slug)) :
               resp' = ListViewResponse("category", Anyone, slug, pp, s)
       ELSE resp' = Response("category", "GET", Anyone, 0, 0, slug, pp, "404",
                             {}, {}, 0, <<>>, <<>>)
    /\ UNCHANGED <<db, now>>

\* paginate_posts, called by the profile view.
paginate_posts(view, user, target, pp, s) ==
    LET number == GetPage(pp, Len(s)) IN
    Response(view, "GET", user, 0, 0, target, pp, "200",
             Range(PageSlice(s, number)), {}, number,
             PageSlice(s, number), s)

\* UserDetailView: 404 for a username no user has; the posts are those of
\* the user found, compared with request.user as a user, not by name.
UserDetailView(user, username, pp) ==
    /\ IF UsersNamed(username) # {}
       THEN \E owner \in UsersNamed(username) :
            \E s \in OrderByPubDateDesc(ProfileQueryset(user, owner)) :
               resp' = paginate_posts("profile", user, username, pp, s)
       ELSE resp' = Response("profile", "GET", user, 0, 0, username, pp, "404",
                             {}, {}, 0, <<>>, <<>>)
    /\ UNCHANGED <<db, now>>

\* A visibility check that also hides a post published this very instant.
PostHiddenAtNow(p) ==
    \/ posts[p].pub_date.t >= now
    \/ ~ posts[p].is_published
    \/ posts[p].category \notin PublishedCategories

\* PostDetailView.get_object: the visibility check a non-author is put to.
PostHidden(p) ==
    \/ posts[p].pub_date.t > now
    \/ ~ posts[p].is_published
    \/ posts[p].category \notin PublishedCategories

PostDetailView(user, post_id) ==
    /\ IF post_id \notin DOMAIN posts
       THEN resp' = Simple("post_detail", "GET", user, post_id, 0, "404", {}, {})
       ELSE IF user # posts[post_id].author /\ PostHidden(post_id)
       THEN resp' = Simple("post_detail", "GET", user, post_id, 0, "404", {}, {})
       ELSE resp' = Simple("post_detail", "GET", user, post_id, 0, "200",
                           {post_id}, {})
    /\ UNCHANGED <<db, now>>

\* ------------------------------------------------------------ post forms
\* The timezone information a submitted pub_date can carry.
\* The clock runs over 0 .. MaxTime and a submitted pub_date lies strictly
\* inside, so that a stored post is seen before, at and after its pub_date.
SubmittedDates ==
    {[t |-> t, tz |-> tz] : t \in 1 .. MaxTime - 1, tz \in AllTzs}

\* The cleaned data of a valid PostForm (the fields visibility depends on).
PostForms ==
    [pub_date : SubmittedDates, is_published : BOOLEAN, category : Categories]

\* ModelForm.save of a valid PostForm on an instance owned by `author`.
SavePost(author, form) ==
    Post(author, clean_pub_date(form.pub_date), form.is_published,
         form.category)

\* LoginRequiredMixin: an unauthenticated request is sent to the login page.
LoginRedirect(view, method, user, post_id, comment_id) ==
    Response(view, method, user, 0, 0, "login", NoPage, "302",
             {}, {}, 0, <<>>, <<>>)

Redirect(view, method, user, post_id, comment_id, to, acted) ==
    Response(view, method, user, post_id, comment_id, to, NoPage, "302",
             {}, acted, 0, <<>>, <<>>)

\* ----------------------------------------------------------- post views
\* PostCreateView: form_valid sets the author to the current user.
PostCreateView(user, method, valid, form) ==
    IF user = Anon
    THEN /\ resp' = LoginRedirect("post_create", method, user, 0, 0)
         /\ UNCHANGED <<db, now>>
    ELSE IF method = "GET" \/ ~ valid
    THEN /\ resp' = Simple("post_create", method, user, 0, 0, "200", {}, {})
         /\ UNCHANGED <<db, now>>
    ELSE /\ nextPost <= MaxPosts
         /\ posts' = Put(posts, nextPost, SavePost(user, form))
         /\ nextPost' = nextPost + 1
         /\ resp' = Redirect("post_create", method, user, nextPost, 0,
                             "profile", {nextPost})
         /\ UNCHANGED <<comments, nextComment, usernames, now>>

\* PostUpdateView.form_valid: the check that sends a non-author away.
UpdateRefused(user, post_id) == posts[post_id].author # user

\* PostUpdateView: dispatch redirects the unauthenticated; get and post load
\* the post by pk (404 when missing); form_valid saves for the author only.
PostUpdateView(user, post_id, method, valid, form) ==
    IF user = Anon
    THEN /\ resp' = Redirect("post_update", method, user, post_id, 0,
                             "post_detail", {})
         /\ UNCHANGED <<db, now>>
    ELSE IF post_id \notin DOMAIN posts
    THEN /\ resp' = Simple("post_update", method, user, post_id, 0, "404",
                           {}, {})
         /\ UNCHANGED <<db, now>>
    ELSE IF method = "GET"
    THEN /\ resp' = Simple("post_update", method, user, post_id, 0, "200",
                           {post_id}, {})
         /\ UNCHANGED <<db, now>>
    ELSE IF ~ valid
    THEN /\ resp' = Simple("post_update", method, user, post_id, 0, "200",
                           {}, {})
         /\ UNCHANGED <<db, now>>
    ELSE IF UpdateRefused(user, post_id)
    THEN /\ resp' = Redirect("post_update", method, user, post_id, 0,
                             "post_detail", {})
         /\ UNCHANGED <<db, now>>
    ELSE /\ posts' = Put(posts, post_id,
                         SavePost(posts[post_id].author, form))
         /\ resp' = Redirect("post_update", method, user, post_id, 0,
                             "profile", {post_id})
         /\ UNCHANGED <<comments, nextPost, nextComment, usernames, now>>

\* The comments left once a post is deleted.  PostDeleteView deletes the post
\* row and touches no comment; a comment is deletable only by its author, so
\* the comments of the post stay as they are.
CommentsAfterPostDelete(post_id) == comments

\* A delete check that refuses everyone but a staff author.
DeleteRefusedUnlessBoth(user, post_id) ==
    posts[post_id].author # user \/ user \notin Staff

\* PostDeleteView.get_object: who is refused.
DeleteRefused(user, post_id) ==
    posts[post_id].author # user /\ user \notin Staff

\* PostDeleteView: GET renders the confirmation page, POST deletes.
PostDeleteView(user, post_id, method) ==
    IF user = Anon
    THEN /\ resp' = LoginRedirect("post_delete", method, user, post_id, 0)
         /\ UNCHANGED <<db, now>>
    ELSE IF post_id \notin DOMAIN posts
    THEN /\ resp' = Simple("post_delete", method, user, post_id, 0, "404",
                           {}, {})
         /\ UNCHANGED <<db, now>>
    ELSE IF DeleteRefused(user, post_id)
    THEN /\ resp' = Simple("post_delete", method, user, post_id, 0, "404",
                           {}, {})
         /\ UNCHANGED <<db, now>>
    ELSE IF method = "GET"
    THEN /\ resp' = Simple("post_delete", method, user, post_id, 0, "200",
                           {post_id}, {})
         /\ UNCHANGED <<db, now>>
    ELSE /\ posts' = Remove(posts, {post_id})
         /\ comments' = CommentsAfterPostDelete(post_id)
         /\ resp' = Redirect("post_delete", method, user, post_id, 0,
                             "profile", {post_id})
         /\ UNCHANGED <<nextPost, nextComment, usernames, now>>

\* ----------------------------------------------------------- user views
\* UserUpdateView: get_object is the current user; a valid form (a username
\* that no other user has) is saved on that user's row.  Of the form's four
\* fields only the username is read by another handler.
UserUpdateView(user, method, valid, username) ==
    IF user = Anon
    THEN /\ resp' = LoginRedirect("user_update", method, user, 0, 0)
         /\ UNCHANGED <<db, now>>
    ELSE IF method = "GET" \/ ~ valid \/ UsersNamed(username) \ {user} # {}
    THEN /\ resp' = Response("user_update", method, user, 0, 0,
                             usernames[user], NoPage, "200",
                             {}, {}, 0, <<>>, <<>>)
         /\ UNCHANGED <<db, now>>
    ELSE /\ usernames' = [usernames EXCEPT ![user] = username]
         /\ resp' = Response("user_update", method, user, 0, 0,
                             username, NoPage, "302",
                             {}, {}, 0, <<>>, <<>>)
         /\ UNCHANGED <<posts, comments, nextPost, nextComment, now>>

\* -------------------------------------------------------- comment views
\* CommentMixin.get_post: the post the URL names, looked up by id alone.
get_post(post_id) == post_id \in DOMAIN posts

\* CommentCreateView: form_valid sets author and post, then saves.
CommentCreateView(user, post_id, method, valid, text) ==
    IF user = Anon
    THEN /\ resp' = LoginRedirect("comment_create", method, user, post_id, 0)
         /\ UNCHANGED <<db, now>>
    ELSE IF method = "GET" \/ ~ valid
    THEN /\ resp' = Simple("comment_create", method, user, post_id, 0, "200",
                           {}, {})
         /\ UNCHANGED <<db, now>>
    ELSE IF ~ get_post(post_id)
    THEN /\ resp' = Simple("comment_create", method, user, post_id, 0, "404",
                           {}, {})
         /\ UNCHANGED <<db, now>>
    ELSE /\ nextComment <= MaxComments
         /\ comments' = Put(comments, nextComment,
                            Comment(user, post_id, text))
         /\ nextComment' = nextComment + 1
         /\ resp' = Redirect("comment_create", method, user, post_id,
                             nextComment, "post_detail", {post_id})
         /\ UNCHANGED <<posts, nextPost, usernames, now>>

\* A comment check that refuses nobody.
CommentRefusedNobody(user, comment_id) == FALSE

\* EditCommentMixin.get_object: who is refused.
CommentRefused(user, comment_id) == comments[comment_id].author # user

\* CommentUpdateView: the form is saved, then the success URL is resolved
\* with get_post.
CommentUpdateView(user, post_id, comment_id, method, valid, text) ==
    IF user = Anon
    THEN /\ resp' = LoginRedirect("comment_update", method, user, post_id,
                                  comment_id)
         /\ UNCHANGED <<db, now>>
    ELSE IF comment_id \notin DOMAIN comments
    THEN /\ resp' = Simple("comment_update", method, user, post_id,
                           comment_id, "404", {}, {})
         /\ UNCHANGED <<db, now>>
    ELSE IF CommentRefused(user, comment_id)
    THEN /\ resp' = Simple("comment_update", method, user, post_id,
                           comment_id, "404", {}, {})
         /\ UNCHANGED <<db, now>>
    ELSE IF method = "GET" \/ ~ valid
    THEN /\ resp' = Simple("comment_update", method, user, post_id,
                           comment_id, "200", {}, {})
         /\ UNCHANGED <<db, now>>
    ELSE /\ comments' = [comments EXCEPT ![comment_id].text = text]
         /\ IF get_post(post_id)
            THEN resp' = Redirect("comment_update", method, user, post_id,
                                  comment_id, "post_detail",
                                  {comments[comment_id].post})
            ELSE resp' = Simple("comment_update", method, user, post_id,
                                comment_id, "404", {}, {})
         /\ UNCHANGED <<posts, nextPost, nextComment, usernames, now>>

\* CommentDeleteView: GET renders the confirmation page; POST resolves the
\* success URL with get_post and then deletes.
CommentDeleteView(user, post_id, comment_id, method) ==
    IF user = Anon
    THEN /\ resp' = LoginRedirect("comment_delete", method, user, post_id,
                                  comment_id)
         /\ UNCHANGED <<db, now>>
    ELSE IF comment_id \notin DOMAIN comments
    THEN /\ resp' = Simple("comment_delete", method, user, post_id,
                           comment_id, "404", {}, {})
         /\ UNCHANGED <<db, now>>
    ELSE IF CommentRefused(user, comment_id)
    THEN /\ resp' = Simple("comment_delete", method, user, post_id,
                           comment_id, "404", {}, {})
         /\ UNCHANGED <<db, now>>
    ELSE IF method = "GET"
    THEN /\ resp' = Simple("comment_delete", method, user, post_id,
                           comment_id, "200", {}, {})
         /\ UNCHANGED <<db, now>>
    ELSE IF ~ get_post(post_id)
    THEN /\ resp' = Simple("comment_delete", method, user, post_id,
                           comment_id, "404", {}, {})
         /\ UNCHANGED <<db, now>>
    ELSE /\ comments' = Remove(comments, {comment_id})
         /\ resp' = Redirect("comment_delete", method, user, post_id,
                             comment_id, "post_detail",
                             {comments[comment_id].post})
         /\ UNCHANGED <<posts, nextPost, nextComment, usernames, now>>

\* ------------------------------------------------------------------ clock
\* timezone.now() advances between requests.
Tick ==
    /\ now < MaxTime
    /\ now' = now + 1
    /\ resp' = Idle
    /\ UNCHANGED db

\* ---------------------------------------------------------- specification
PostIds == 1 .. MaxPosts
CommentIds == 1 .. MaxComments

\* The submissions a form view can receive: a GET, a POST whose data does not
\* validate, and a POST of each valid form.
\* The requests of the whole application submit naive pub_dates (a
\* datetime-local input carries no timezone); those of the post form alone
\* submit every kind of tzinfo on an otherwise public post.
NaiveForms == {f \in PostForms : f.pub_date.tz = "naive"}
PublicForms ==
    {f \in PostForms : f.is_published /\ f.category \in PublishedCategories}
AnyForm == CHOOSE f \in PostForms : TRUE
PostSubmissions(forms) ==
    {[method |-> "GET", valid |-> FALSE, form |-> AnyForm],
     [method |-> "POST", valid |-> FALSE, form |-> AnyForm]}
        \cup {[method |-> "POST", valid |-> TRUE, form |-> f] :
                f \in forms}
\* The submissions the profile form can receive, the valid ones taking their
\* username from `names`.
AnyName == CHOOSE n \in Usernames : TRUE
UserSubmissions(names) ==
    {[method |-> "GET", valid |-> FALSE, username |-> AnyName],
     [method |-> "POST", valid |-> FALSE, username |-> AnyName]}
        \cup {[method |-> "POST", valid |-> TRUE, username |-> n] :
                n \in names}
\* The whole application is checked with renames to the one username nobody
\* registered with, the listings with renames to every username.
FreshNames == Usernames \ Users
AnyText == CHOOSE t \in Texts : TRUE
CommentSubmissions ==
    {[method |-> "GET", valid |-> FALSE, text |-> AnyText],
     [method |-> "POST", valid |-> FALSE, text |-> AnyText]}
        \cup {[method |-> "POST", valid |-> TRUE, text |-> t] : t \in Texts}

Init ==
    /\ posts = <<>>
    /\ comments = <<>>
    /\ nextPost = 1
    /\ nextComment = 1
    /\ usernames = [u \in Users |-> u]
    /\ now = 0
    /\ resp = Idle

Next ==
    \/ PostsListView(NoPage)
    \/ \E slug \in Slugs : CategoryListView(slug, NoPage)
    \/ \E u \in Viewers, name \in Usernames : UserDetailView(u, name, NoPage)
    \/ \E u \in Viewers, p \in PostIds : PostDetailView(u, p)
    \/ \E u \in Viewers, r \in PostSubmissions(NaiveForms) :
          PostCreateView(u, r.method, r.valid, r.form)
    \/ \E u \in Viewers, p \in PostIds, r \in PostSubmissions(NaiveForms) :
          PostUpdateView(u, p, r.method, r.valid, r.form)
    \/ \E u \in Viewers, p \in PostIds, m \in Methods :
          PostDeleteView(u, p, m)
    \/ \E u \in Viewers, p \in PostIds, r \in CommentSubmissions :
          CommentCreateView(u, p, r.method, r.valid, r.text)
    \/ \E u \in Viewers, p \in PostIds, c \in CommentIds,
          r \in CommentSubmissions :
          CommentUpdateView(u, p, c, r.method, r.valid, r.text)
    \/ \E u \in Viewers, p \in PostIds, c \in CommentIds, m \in Methods :
          CommentDeleteView(u, p, c, m)
    \/ \E u \in Viewers, r \in UserSubmissions(FreshNames) :
          UserUpdateView(u, r.method, r.valid, r.username)
    \/ Tick

Spec == Init /\ [][Next]_vars

\* ------------------------------ specification of what a viewer is shown
\* Comments decide nothing about which posts a page shows: the post views,
\* the listings, the profile form and the clock, with no comment written.
NextView ==
    \/ PostsListView(NoPage)
    \/ \E slug \in Slugs : CategoryListView(slug, NoPage)
    \/ \E u \in Viewers, name \in Usernames : UserDetailView(u, name, NoPage)
    \/ \E u \in Viewers, p \in PostIds : PostDetailView(u, p)
    \/ \E u \in Viewers, r \in PostSubmissions(NaiveForms) :
          PostCreateView(u, r.method, r.valid, r.form)
    \/ \E u \in Viewers, p \in PostIds, r \in PostSubmissions(NaiveForms) :
          PostUpdateView(u, p, r.method, r.valid, r.form)
    \/ \E u \in Viewers, p \in PostIds, m \in Methods :
          PostDeleteView(u, p, m)
    \/ \E u \in Viewers, r \in UserSubmissions(FreshNames) :
          UserUpdateView(u, r.method, r.valid, r.username)
    \/ Tick

SpecView == Init /\ [][NextView]_vars

\* ------------------------------- specification of the posts and comments
\* The handlers that take a post id or a comment id and can write a post or
\* a comment, and the clock; no handler among them reads a username.
NextContent ==
    \/ \E u \in Viewers, r \in PostSubmissions(NaiveForms) :
          PostCreateView(u, r.method, r.valid, r.form)
    \/ \E u \in Viewers, p \in PostIds, r \in PostSubmissions(NaiveForms) :
          PostUpdateView(u, p, r.method, r.valid, r.form)
    \/ \E u \in Viewers, p \in PostIds, m \in Methods :
          PostDeleteView(u, p, m)
    \/ \E u \in Viewers, p \in PostIds, r \in CommentSubmissions :
          CommentCreateView(u, p, r.method, r.valid, r.text)
    \/ \E u \in Viewers, p \in PostIds, c \in CommentIds,
          r \in CommentSubmissions :
          CommentUpdateView(u, p, c, r.method, r.valid, r.text)
    \/ \E u \in Viewers, p \in PostIds, c \in CommentIds, m \in Methods :
          CommentDeleteView(u, p, c, m)
    \/ Tick

SpecContent == Init /\ [][NextContent]_vars

\* ---------------------------------------- specification of the post form
\* The post form views alone, fed pub_dates with every kind of tzinfo.
NextForm ==
    \/ \E u \in Viewers, r \in PostSubmissions(PublicForms) :
          PostCreateView(u, r.method, r.valid, r.form)
    \/ \E u \in Viewers, p \in PostIds, r \in PostSubmissions(PublicForms) :
          PostUpdateView(u, p, r.method, r.valid, r.form)
    \/ \E u \in Viewers, p \in PostIds : PostDetailView(u, p)
    \/ Tick

SpecForm == Init /\ [][NextForm]_vars

\* ----------------------------------------- specification of the listings
\* A database of up to MaxListed published posts, the oldest four sharing
\* their pub_date in pairs, the first b of them written by bob; the listings
\* are requested with every kind of page parameter.
ListedDate(i) == IF i <= 4 THEN (i + 1) \div 2 ELSE i - 2
ListedPost(i, b) ==
    Post(IF i <= b THEN "bob" ELSE "alice",
         [t |-> ListedDate(i), tz |-> DefaultTz], TRUE, "travel")

InitList ==
    /\ \E n \in 0 .. MaxListed, b \in 0 .. 2 :
          /\ b <= n
          /\ posts = [i \in 1 .. n |-> ListedPost(i, b)]
          /\ nextPost = n + 1
    /\ comments = <<>>
    /\ nextComment = 1
    /\ usernames = [u \in Users |-> u]
    /\ now = MaxListed
    /\ resp = Idle

NextList ==
    \/ \E pp \in PageParams : PostsListView(pp)
    \/ \E slug \in Slugs, pp \in PageParams : CategoryListView(slug, pp)
    \/ \E u \in Viewers, name \in Usernames, pp \in PageParams :
          UserDetailView(u, name, pp)
    \/ \E u \in Viewers, r \in UserSubmissions(Usernames) :
          UserUpdateView(u, r.method, r.valid, r.username)

SpecList == InitList /\ [][NextList]_vars

\* =================================================================
\* Properties
\* =================================================================
\* The visibility rule as the specification states it.
PubliclyVisible(p) ==
    /\ posts[p].pub_date.t <= now
    /\ posts[p].is_published
    /\ posts[p].category \in PublishedCategories

PubDate(p) == posts[p].pub_date.t

\* The users whose profile the username of a profile response names.
ProfileOwners == {u \in Users : usernames[u] = resp.target}

\* C1: the post detail view answers a viewer who is not the author with
\* not-found exactly when pub_date > now, or the post is unpublished, or its
\* category is unpublished, and with the post otherwise (pub_date = now
\* included); it answers the author with the post whatever the three are.
C1_DetailVisibility ==
    (resp.view = "post_detail" /\ resp.post \in DOMAIN posts) =>
        LET P == posts[resp.post] IN
        IF resp.user # P.author
        THEN IF \/ P.pub_date.t > now
                \/ ~ P.is_published
                \/ P.category \notin PublishedCategories
             THEN resp.status = "404" /\ resp.shows = {}
             ELSE resp.status = "200" /\ resp.shows = {resp.post}
        ELSE resp.status = "200" /\ resp.shows = {resp.post}

\* A non-author is refused a post of the future that is otherwise public.
C1_Witness ==
    /\ resp.view = "post_detail"
    /\ resp.post \in DOMAIN posts
    /\ resp.user # posts[resp.post].author
    /\ posts[resp.post].pub_date.t > now
    /\ posts[resp.post].is_published
    /\ posts[resp.post].category \in PublishedCategories
    /\ resp.status = "404"

\* C2: the index listing, the listing of a published category and the
\* profile listing shown to someone other than its owner hold exactly the
\* publicly visible posts of their scope; the profile listing shown to its
\* owner holds all of the owner's posts.
C2_ListingsFilter ==
    /\ Len(resp.listing) = Cardinality(Range(resp.listing))
    /\ (resp.view = "index" /\ resp.status = "200") =>
          Range(resp.listing) = {p \in DOMAIN posts : PubliclyVisible(p)}
    /\ (resp.view = "category" /\ resp.target \in PublishedCategories
            /\ resp.status = "200") =>
          Range(resp.listing) =
              {p \in DOMAIN posts :
                  posts[p].category = resp.target /\ PubliclyVisible(p)}
    /\ resp.view = "profile" =>
          \A owner \in ProfileOwners :
              /\ resp.status = "200"
              /\ Range(resp.listing) =
                    IF resp.user = owner
                    THEN {p \in DOMAIN posts : posts[p].author = owner}
                    ELSE {p \in DOMAIN posts :
                            posts[p].author = owner /\ PubliclyVisible(p)}

\* A profile shown to a visitor leaves out a published, already dated post
\* of the owner because its category is unpublished, and lists another.
C2_Witness ==
    /\ resp.view = "profile"
    /\ resp.user \notin ProfileOwners
    /\ resp.listing # <<>>
    /\ \E p \in DOMAIN posts :
          /\ posts[p].author \in ProfileOwners
          /\ posts[p].is_published
          /\ posts[p].pub_date.t <= now
          /\ posts[p].category \notin PublishedCategories
          /\ p \notin Range(resp.listing)

\* C3: no response given to a user who is not a post's author (and, for the
\* delete view, not staff) shows the content of, or reports a successful
\* operation on, a post that is not publicly visible.
C3_NoHiddenPostExposed ==
    \A p \in (resp.shows \cup resp.acted) \cap DOMAIN posts :
        (/\ resp.user # posts[p].author
         /\ ~ (resp.view = "post_delete" /\ resp.user \in Staff))
            => PubliclyVisible(p)

C5_NonAuthorUpdateRedirects ==
    [][(/\ resp'.view = "post_update"
        /\ resp'.post \in DOMAIN posts
        /\ resp'.user # posts[resp'.post].author)
           => (resp'.status = "302" /\ posts' = posts)]_vars

\* C6: a delete request by an authenticated user who is neither the author
\* nor staff is answered not-found and leaves the post and the comments in
\* place; a delete submission by the author or a staff user removes the post;
\* and a post disappears only through such a submission.
C6_PostDelete ==
    [][/\ (/\ resp'.view = "post_delete"
           /\ resp'.user \in Users
           /\ resp'.post \in DOMAIN posts) =>
              IF /\ resp'.user # posts[resp'.post].author
                 /\ resp'.user \notin Staff
              THEN /\ resp'.status = "404"
                   /\ posts' = posts
                   /\ comments' = comments
              ELSE IF resp'.method = "POST"
              THEN /\ resp'.status = "302"
                   /\ resp'.post \notin DOMAIN posts'
              ELSE /\ resp'.status = "200"
                   /\ posts' = posts
       /\ \A p \in DOMAIN posts :
            p \notin DOMAIN posts' =>
                /\ resp'.view = "post_delete"
                /\ resp'.post = p
                /\ \/ resp'.user = posts[p].author
                   \/ resp'.user \in Staff]_vars

\* A user who is neither author nor staff asked to delete a commented post
\* and got not-found; post and comment are still there.
C6_Witness ==
    /\ resp.view = "post_delete"
    /\ resp.method = "POST"
    /\ resp.user \in Users \ Staff
    /\ resp.post \in DOMAIN posts
    /\ resp.user # posts[resp.post].author
    /\ resp.status = "404"
    /\ \E c \in DOMAIN comments : comments[c].post = resp.post

\* C7 as stated: of two posts adjacent on a page of a listing the earlier
\* one has a strictly greater pub_date.
C7_StrictlyDescending ==
    (resp.view \in {"index", "category", "profile"}) =>
        \A i \in 1 .. Len(resp.items) - 1 :
            PubDate(resp.items[i]) > PubDate(resp.items[i + 1])

\* The scope of the listing a response shows.
ListedScope ==
    IF resp.view = "index" THEN IndexQueryset
    ELSE IF resp.view = "category" THEN CategoryQueryset(resp.target)
    ELSE ProfileQueryset(resp.user, CHOOSE u \in ProfileOwners : TRUE)

\* C7 amended: every listing is sorted by descending pub_date, posts with
\* the same pub_date in any order: of two posts adjacent on a page the
\* earlier one has a pub_date greater than or equal to the later one's, and
\* so has the last post of a page against the first post of the next page,
\* whichever order of equal posts the later request gets.
C7_Descending ==
    (resp.view \in {"index", "category", "profile"} /\ resp.status = "200") =>
        /\ \A i \in 1 .. Len(resp.items) - 1 :
              PubDate(resp.items[i]) >= PubDate(resp.items[i + 1])
        /\ \A i \in 1 .. Len(resp.listing) - 1 :
              PubDate(resp.listing[i]) >= PubDate(resp.listing[i + 1])
        /\ \A s \in OrderByPubDateDesc(ListedScope) :
              (resp.items # <<>> /\ PageSlice(s, resp.number + 1) # <<>>) =>
                  PubDate(resp.items[Len(resp.items)])
                      >= PubDate(PageSlice(s, resp.number + 1)[1])

\* A full first page whose last post shares its pub_date with the first post
\* of the second page.
C7_Witness ==
    /\ resp.view \in {"index", "category", "profile"}
    /\ resp.status = "200"
    /\ resp.number = 1
    /\ Len(resp.items) = PerPage
    /\ Len(resp.listing) > PerPage
    /\ PubDate(resp.listing[PerPage]) = PubDate(resp.listing[PerPage + 1])

\* C8: whatever the page parameter, each of the three listings answers with
\* a page of at most 10 posts, an out-of-range value clamped to a valid page.
C8_PageAlwaysClamped ==
    (\/ resp.view = "index"
     \/ resp.view = "category" /\ resp.target \in PublishedCategories
     \/ resp.view = "profile" /\ ProfileOwners # {}) =>
        /\ resp.status = "200"
        /\ Len(resp.items) <= PerPage
        /\ resp.number \in 1 .. NumPages(Len(resp.listing))

\* C9: clean_pub_date attaches the default timezone to a naive pub_date and
\* returns an aware one unchanged, so that cleaning twice is cleaning once,
\* and every stored pub_date is timezone-aware.
C9_PubDateAware ==
    /\ \A d \in SubmittedDates :
          /\ d.tz = "naive" =>
                clean_pub_date(d) = [t |-> d.t, tz |-> DefaultTz]
          /\ d.tz # "naive" => clean_pub_date(d) = d
          /\ clean_pub_date(clean_pub_date(d)) = clean_pub_date(d)
    /\ \A p \in DOMAIN posts : posts[p].pub_date.tz \in AwareTzs

\* An update was saved, and the database holds a pub_date in the default
\* timezone beside one that kept the timezone it was submitted with.
C9_Witness ==
    /\ resp.view = "post_update"
    /\ resp.acted # {}
    /\ \E p, q \in DOMAIN posts :
          /\ posts[p].pub_date.tz = DefaultTz
          /\ posts[q].pub_date.tz = "utc"

\* C10: a request answered not-found leaves posts, comments and users as
\* they were.
C10_NotFoundChangesNothing ==
    [][resp'.status = "404" =>
          (posts' = posts /\ comments' = comments /\ usernames' = usernames)]_vars

====
